---------------------------- MODULE Spec2Model ----------------------------
(***************************************************************************)
(* A model of lcls_tools/superconducting/scLinac.py: the power state       *)
(* machines of the SSA and the cavity, the calibration sequences, the      *)
(* pulse on-time check and go button, the segmented move of the stepper    *)
(* tuner with its temperature callback, the writes of the magnet, the     *)
(* construction of racks and cryomodules and make_lcls_cryomodules; and of *)
(* the retry loops of PV in                                                *)
(* lcls_tools/common/pyepics_tools/pyepicsUtils.py.                        *)
(*                                                                         *)
(* One top-level operation runs per behaviour, on one thread of control    *)
(* (pc).  Every PV.put the program performs is appended to `writes`, in    *)
(* the order the puts happen, whichever context performs them.  The        *)
(* hardware behind the channels is the environment: its values change in   *)
(* separate actions.                                                       *)
(***************************************************************************)
EXTENDS Integers, Sequences, FiniteSets, TLC

VARIABLES
    lcls,        \* make_lcls_cryomodules: [linacObjs, cryoObjs: the Linac and
                 \* Cryomodule instances in order of creation, referred to
                 \* by their index; linacObjects, cryomoduleObjects: the
                 \* locals of the function; linac: the Linac whose
                 \* addCryomodules runs; list, k, isHarmonicLinearizer: its
                 \* cryomoduleStringList, the position of its loop and its
                 \* flag; idx: the position of the loop over LINAC_TUPLES]
    topology,    \* the objects a Cryomodule or Rack constructor has made:
                 \* [name, isHarmonicLinearizer, magnets, racks, cavities:
                 \* the attributes of the Cryomodule; rackObjs, cavObjs,
                 \* ssaObjs: the Rack, Cavity and SSA instances in order of
                 \* creation, referred to by their index; pair: the index
                 \* of the loop over cavity_ssa_pairs]
    channel,     \* one pyepicsUtils.PV and the get or put in progress on it:
                 \* [cached: data["value"], written: the value the record
                 \* holds, attempt: the local counter, log: what each
                 \* provider call of this get or put gave, calls: the
                 \* primitive each of those calls went to, result: the
                 \* value get returned]
    op,          \* the top-level operation in progress ("none" before a call)
    arg,         \* its arguments, a record
    pc,          \* position of the calling thread
    err,         \* the exception that ended the call ("none" if none)
    writes,      \* every channel write so far: <<[pv |-> name, val |-> v], ...>>
    ssaStatus,   \* value of the SSA StatusMsg channel (hardware)
    statusAtCall,\* history: ssaStatus when the SSA call started
    rfState,     \* value of the cavity RFSTATE channel (hardware)
    meas,        \* values of the measured-calibration channels (hardware)
    rem,         \* StepperTuner.move: numSteps of the current (recursive) call
    chg,         \* StepperTuner.move: changeLimits of the current call
    motor,       \* the stepper motor: [moving, done], as the hardware has them
    cache,       \* STAT_MOV / STAT_DONE as last delivered to the PV objects
    cb,          \* the checkTemp callback: [n: runs so far, temp: STEPTEMP it
                 \* read last, pc: where the move was at that run]
    pulse        \* the cavity's pulse channels: [status: PULSE_STATUS and
                 \* onTime: PULSE_ONTIME (hardware), onTimeRead, loopRead,
                 \* checkRead: the values the call's reads returned, -1 if
                 \* not read]

tunerVars == <<rem, chg, motor, cache, cb>>

vars == <<op, arg, pc, err, writes, ssaStatus, statusAtCall, rfState, meas,
          rem, chg, motor, cache, cb, pulse, channel, topology, lcls>>

(***************************************************************************)
(* Constants of scLinacUtils, a module the source imports but that is not  *)
(* part of the source tree.  The numbers are small stand-ins that keep the *)
(* order relations the code relies on.                                     *)
(***************************************************************************)
SSA_STATUS_ON_VALUE == 3
SSAStatusValues == {1, 2, 3}          \* some StatusMsg values, ON among them

SSA_SLOPE_LOWER_LIMIT == 1
SSA_SLOPE_UPPER_LIMIT == 2
LOADED_Q_LOWER_LIMIT == 2
LOADED_Q_UPPER_LIMIT == 3
CAVITY_SCALE_LOWER_LIMIT == 1
CAVITY_SCALE_UPPER_LIMIT == 3

\* Bound: measured calibration values range over 0..MaxMeasured.
MaxMeasured == 4
Measured == 0..MaxMeasured

Put(pv, v) == Append(writes, [pv |-> pv, val |-> v])

WritesTo(pv) == {i \in 1..Len(writes) : writes[i].pv = pv}

(***************************************************************************)
(* Comparison of a PV object with a value.  scLinac.py lines 40, 43, 46    *)
(* and 49 compare self.ssaStatusPV itself (not self.ssaStatusPV.value)     *)
(* with the sentinel.  No PV class compares by value (epics.PV, imported   *)
(* on line 9, compares channel ids; pyepicsUtils.PV defines no comparison, *)
(* so Python compares identities): `pv == x` is False and `pv != x` is     *)
(* True for every value the channel holds.                                 *)
(***************************************************************************)
\* The comparison a `.value` on those lines would make.
PVEqualByValue(value, x) == value = x

PVEqual(value, x) == FALSE

PVNotEqual(value, x) == ~PVEqual(value, x)

Return == pc' = IF op = "SSA.runCalibration" THEN "cal_start" ELSE "done"

Raise(e) == pc' = "raised" /\ err' = e

-----------------------------------------------------------------------------
(* SSA.turnOn / SSA.turnOff / SSA.setPowerState / SSA.runCalibration *)

SSAOps == {"SSA.setPowerState", "SSA.turnOn", "SSA.turnOff", "SSA.runCalibration"}

\* The value of turnOn with which setPowerState runs.
TurnOnOf(o, t) ==
    CASE o = "SSA.turnOn" -> TRUE
      [] o = "SSA.turnOff" -> FALSE
      [] o = "SSA.runCalibration" -> TRUE
      [] OTHER -> t

CallSSA ==
    /\ pc = "idle"
    /\ \E o \in SSAOps, t \in BOOLEAN, s \in SSAStatusValues, a \in Measured :
          /\ op' = o
          /\ arg' = [turnOn |-> TurnOnOf(o, t)]
          /\ ssaStatus' = s
          /\ statusAtCall' = s
          /\ meas' = [meas EXCEPT !.slope = a]
    /\ pc' = "ssa_test"
    /\ UNCHANGED <<err, writes, rfState, tunerVars, pulse, channel, topology, lcls>>

\* setPowerState, lines 40-41 and 45-47: the branch taken and its write.
SSATest ==
    /\ pc = "ssa_test"
    /\ IF arg.turnOn /\ PVNotEqual(ssaStatus, SSA_STATUS_ON_VALUE)
       THEN /\ writes' = Put("SSA:PowerOn", 1)
            /\ pc' = "ssa_sleep7"
       ELSE IF PVEqual(ssaStatus, SSA_STATUS_ON_VALUE)
            THEN /\ writes' = Put("SSA:PowerOff", 1)
                 /\ pc' = "ssa_sleep1"
            ELSE /\ writes' = writes
                 /\ Return
    /\ UNCHANGED <<op, arg, err, ssaStatus, statusAtCall, rfState, meas, tunerVars, pulse, channel, topology, lcls>>

\* A setPowerState that does not verify: it returns after the settle sleep.
SSAVerifyNoRaise ==
    /\ pc \in {"ssa_sleep7", "ssa_sleep1"}
    /\ Return
    /\ UNCHANGED <<op, arg, err, writes, ssaStatus, statusAtCall, rfState, meas, tunerVars, pulse, channel, topology, lcls>>

\* setPowerState, lines 43-44 and 49-50: the test after the settle sleep.
SSAVerify ==
    /\ pc \in {"ssa_sleep7", "ssa_sleep1"}
    /\ IF pc = "ssa_sleep7"
       THEN IF PVNotEqual(ssaStatus, SSA_STATUS_ON_VALUE)
            THEN Raise("SSAPowerError")
            ELSE Return /\ err' = err
       ELSE IF PVEqual(ssaStatus, SSA_STATUS_ON_VALUE)
            THEN Raise("SSAPowerError")
            ELSE Return /\ err' = err
    /\ UNCHANGED <<op, arg, writes, ssaStatus, statusAtCall, rfState, meas, tunerVars, pulse, channel, topology, lcls>>

\* The amplifier reacts (or not) while the caller sleeps.
SSAStatusChange ==
    /\ pc \in {"ssa_sleep7", "ssa_sleep1"}
    /\ \E s \in SSAStatusValues \ {ssaStatus} : ssaStatus' = s
    /\ UNCHANGED <<op, arg, pc, err, writes, statusAtCall, rfState, meas, tunerVars, pulse, channel, topology, lcls>>

-----------------------------------------------------------------------------
(* Cavity.turnOn / Cavity.turnOff / Cavity.setPowerState *)

CavityPowerOps == {"Cavity.setPowerState", "Cavity.turnOn", "Cavity.turnOff"}

CavTurnOnOf(o, t) ==
    CASE o = "Cavity.turnOn" -> TRUE
      [] o = "Cavity.turnOff" -> FALSE
      [] OTHER -> t

\* line 273
DesiredState(turnOn) == IF turnOn THEN 1 ELSE 0

CallCavityPower ==
    /\ pc = "idle"
    /\ \E o \in CavityPowerOps, t \in BOOLEAN, s \in {0, 1} :
          /\ op' = o
          /\ arg' = [turnOn |-> CavTurnOnOf(o, t)]
          /\ rfState' = s
    /\ pc' = "cav_test"
    /\ UNCHANGED <<err, writes, ssaStatus, statusAtCall, meas, tunerVars, pulse, channel, topology, lcls>>

\* Cavity.setPowerState, lines 275-279: one read of RFSTATE, at most one
\* write of RFCTRL, then the normal return.
CavitySetPowerState ==
    /\ pc = "cav_test"
    /\ IF rfState # DesiredState(arg.turnOn)
       THEN writes' = Put("RFCTRL", DesiredState(arg.turnOn))
       ELSE writes' = writes
    /\ pc' = "done"
    /\ UNCHANGED <<op, arg, err, ssaStatus, statusAtCall, rfState, meas, tunerVars, pulse, channel, topology, lcls>>

\* The RF station follows the last RFCTRL written, some time after the write.
RFStateFollows ==
    /\ op \in CavityPowerOps
    /\ WritesTo("RFCTRL") # {}
    /\ rfState # writes[Len(writes)].val
    /\ rfState' = writes[Len(writes)].val
    /\ UNCHANGED <<op, arg, pc, err, writes, ssaStatus, statusAtCall, meas, tunerVars, pulse, channel, topology, lcls>>

-----------------------------------------------------------------------------
(* Calibration: SSA.runCalibration (after setPowerState) and               *)
(* Cavity.runCalibration.  utils.runCalibration and                        *)
(* utils.pushAndSaveCalibrationChange are not in the source tree; they are *)
(* modelled from their description: run the sweep to completion or raise   *)
(* the given exception; push and save the measured value if it lies in the *)
(* closed range, else raise the given exception.                           *)

LimitPairs == {p \in Measured \X Measured : p[1] <= p[2]}

CallCavityCalibration ==
    /\ pc = "idle"
    /\ op' = "Cavity.runCalibration"
    /\ \E p \in LimitPairs :
          arg' = [loadedQLowerlimit |-> p[1], loadedQUpperlimit |-> p[2]]
    /\ pc' = "cav_reset"
    /\ UNCHANGED <<err, writes, ssaStatus, statusAtCall, rfState, meas, tunerVars, pulse, channel, topology, lcls>>

\* Cavity.runCalibration, lines 289-292
CavityResetAndDrive ==
    /\ pc \in {"cav_reset", "cav_drive"}
    /\ IF pc = "cav_reset"
       THEN writes' = Put("INTLK_RESET_ALL", 1) /\ pc' = "cav_drive"
       ELSE writes' = Put("SEL_ASET", 15) /\ pc' = "cal_start"
    /\ UNCHANGED <<op, arg, err, ssaStatus, statusAtCall, rfState, meas, tunerVars, pulse, channel, topology, lcls>>

\* The arguments of the two utils.runCalibration calls.
SSARunCalibrationArgs ==
    [startPV |-> "SSA:CALSTRT", exception |-> "SSACalibrationError"]

CavityRunCalibrationArgs ==
    [startPV |-> "PROBECALSTRT", exception |-> "CavityQLoadedCalibrationError"]

RunCalibrationArgs ==
    IF op = "SSA.runCalibration" THEN SSARunCalibrationArgs
                                 ELSE CavityRunCalibrationArgs

\* utils.runCalibration: start the sweep.
RunCalibrationStart ==
    /\ pc = "cal_start"
    /\ writes' = Put(RunCalibrationArgs.startPV, 1)
    /\ pc' = "cal_wait"
    /\ UNCHANGED <<op, arg, err, ssaStatus, statusAtCall, rfState, meas, tunerVars, pulse, channel, topology, lcls>>

\* utils.runCalibration: the sweep ends, leaving new measured values, or
\* faults / times out.
RunCalibrationEnd ==
    /\ pc = "cal_wait"
    /\ \/ /\ \E a \in Measured, b \in Measured :
                meas' = IF op = "SSA.runCalibration"
                        THEN [meas EXCEPT !.slope = a]
                        ELSE [meas EXCEPT !.q = a, !.scale = b]
          /\ pc' = IF op = "SSA.runCalibration" THEN "push_slope" ELSE "push_q"
          /\ err' = err
       \/ /\ Raise(RunCalibrationArgs.exception)
          /\ meas' = meas
    /\ UNCHANGED <<op, arg, writes, ssaStatus, statusAtCall, rfState, tunerVars, pulse, channel, topology, lcls>>

\* The arguments of the three utils.pushAndSaveCalibrationChange calls.
SSASlopePushArgs ==
    [measured |-> meas.slope,
     lowerLimit |-> SSA_SLOPE_LOWER_LIMIT, upperLimit |-> SSA_SLOPE_UPPER_LIMIT,
     pushPV |-> "PUSH_SSA_SLOPE.PROC", savePV |-> "SAVE_SSA_SLOPE.PROC",
     exception |-> "SSACalibrationError"]

\* The loaded-Q call with the default limits instead of the caller's.
LoadedQPushArgsDefaultLimits ==
    [measured |-> meas.q,
     lowerLimit |-> LOADED_Q_LOWER_LIMIT, upperLimit |-> LOADED_Q_UPPER_LIMIT,
     pushPV |-> "PUSH_QLOADED.PROC", savePV |-> "SAVE_QLOADED.PROC",
     exception |-> "CavityQLoadedCalibrationError"]

LoadedQPushArgs ==
    [measured |-> meas.q,
     lowerLimit |-> arg.loadedQLowerlimit, upperLimit |-> arg.loadedQUpperlimit,
     pushPV |-> "PUSH_QLOADED.PROC", savePV |-> "SAVE_QLOADED.PROC",
     exception |-> "CavityQLoadedCalibrationError"]

\* The cavity-scale call with the loaded-Q limits of the caller.
CavityScalePushArgsLoadedQLimits ==
    [measured |-> meas.scale,
     lowerLimit |-> arg.loadedQLowerlimit, upperLimit |-> arg.loadedQUpperlimit,
     pushPV |-> "PUSH_CAV_SCALE.PROC", savePV |-> "SAVE_CAV_SCALE.PROC",
     exception |-> "CavityScaleFactorCalibrationError"]

CavityScalePushArgs ==
    [measured |-> meas.scale,
     lowerLimit |-> CAVITY_SCALE_LOWER_LIMIT, upperLimit |-> CAVITY_SCALE_UPPER_LIMIT,
     pushPV |-> "PUSH_CAV_SCALE.PROC", savePV |-> "SAVE_CAV_SCALE.PROC",
     exception |-> "CavityScaleFactorCalibrationError"]

PushArgs ==
    CASE pc = "push_slope" -> SSASlopePushArgs
      [] pc = "push_q" -> LoadedQPushArgs
      [] OTHER -> CavityScalePushArgs

InRange(a) == a.lowerLimit <= a.measured /\ a.measured <= a.upperLimit

\* utils.pushAndSaveCalibrationChange
PushAndSaveCalibrationChange ==
    /\ pc \in {"push_slope", "push_q", "push_scale"}
    /\ IF InRange(PushArgs)
       THEN /\ writes' = writes \o <<[pv |-> PushArgs.pushPV, val |-> 1],
                                     [pv |-> PushArgs.savePV, val |-> 1]>>
            /\ pc' = IF pc = "push_q" THEN "push_scale" ELSE "done"
            /\ err' = err
       ELSE /\ writes' = writes
            /\ Raise(PushArgs.exception)
    /\ UNCHANGED <<op, arg, ssaStatus, statusAtCall, rfState, meas, tunerVars, pulse, channel, topology, lcls>>

-----------------------------------------------------------------------------
(* StepperTuner: move, issueMoveCommand, restoreDefaults, checkTemp *)

\* Constants of scLinacUtils (stand-ins, as above).
DEFAULT_STEPPER_MAX_STEPS == 7
DEFAULT_STEPPER_SPEED == 2
MAX_STEPPER_SPEED == 3
STEPPER_TEMP_LIMIT == 1

\* Bounds on the arguments of move and on the runs of the callback.
MaxNumSteps == 5
MaxMaxSteps == 2
MaxNotifications == 1

NumStepsValues == (0 - MaxNumSteps)..MaxNumSteps
MaxStepsValues == 1..MaxMaxSteps
SpeedValues == {MAX_STEPPER_SPEED - 1, MAX_STEPPER_SPEED + 1}
TempValues == {STEPPER_TEMP_LIMIT - 1, STEPPER_TEMP_LIMIT, STEPPER_TEMP_LIMIT + 1}

Abs(x) == IF x < 0 THEN 0 - x ELSE x

\* numpy.sign
Sign(x) == IF x > 0 THEN 1 ELSE IF x < 0 THEN 0 - 1 ELSE 0

\* line 127: where a call of move starts, given its changeLimits
EntryPc(changeLimits) == IF changeLimits THEN "t_max" ELSE "t_steps"

CallMove ==
    /\ pc = "idle"
    /\ op' = "StepperTuner.move"
    /\ \E n \in NumStepsValues, m \in MaxStepsValues, s \in SpeedValues,
          c \in BOOLEAN, hl \in BOOLEAN, d \in {0, 1} :
          /\ arg' = [numSteps |-> n, maxSteps |-> m, speed |-> s,
                     changeLimits |-> c, isHarmonicLinearizer |-> hl]
          /\ rem' = n
          /\ chg' = c
          /\ pc' = EntryPc(c)
          /\ motor' = [moving |-> 0, done |-> d]
          /\ cache' = [moving |-> 0, done |-> d]
    /\ UNCHANGED <<err, writes, ssaStatus, statusAtCall, rfState, meas, cb, pulse, channel, topology, lcls>>

\* Any maxSteps and speed a caller may pass: zero and negative maxSteps, and
\* a speed below, at and above the ceiling.
AnyMaxStepsValues == (0 - MaxMaxSteps)..MaxMaxSteps
AnySpeedValues == {MAX_STEPPER_SPEED - 1, MAX_STEPPER_SPEED,
                   MAX_STEPPER_SPEED + 1}

\* The segments of one move that are followed: more than any move with a
\* positive maxSteps has.
MaxSegments == MaxNumSteps + 2

CallMoveAnyLimits ==
    /\ pc = "idle"
    /\ op' = "StepperTuner.move"
    /\ \E n \in NumStepsValues, m \in AnyMaxStepsValues, s \in AnySpeedValues,
          c \in BOOLEAN, hl \in BOOLEAN :
          /\ arg' = [numSteps |-> n, maxSteps |-> m, speed |-> s,
                     changeLimits |-> c, isHarmonicLinearizer |-> hl]
          /\ rem' = n
          /\ chg' = c
          /\ pc' = EntryPc(c)
    /\ motor' = [moving |-> 0, done |-> 1]
    /\ cache' = [moving |-> 0, done |-> 1]
    /\ UNCHANGED <<err, writes, ssaStatus, statusAtCall, rfState, meas, cb,
                   pulse, channel, topology, lcls>>

\* line 129
MaxStepsWritten(maxSteps) == Abs(maxSteps)

\* A speed written as requested, without the ceiling.
SpeedWrittenUnclamped(speed) == speed

\* lines 132-133
SpeedWritten(speed) ==
    IF speed < MAX_STEPPER_SPEED THEN speed ELSE MAX_STEPPER_SPEED

\* move, lines 127-133: the two limit writes of a call with changeLimits
MoveChangeLimits ==
    /\ pc \in {"t_max", "t_speed"}
    /\ IF pc = "t_max"
       THEN /\ writes' = Put("NSTEPS.DRVH", MaxStepsWritten(arg.maxSteps))
            /\ pc' = "t_speed"
       ELSE /\ writes' = Put("VELO", SpeedWritten(arg.speed))
            /\ pc' = "t_steps"
    /\ UNCHANGED <<op, arg, err, ssaStatus, statusAtCall, rfState, meas, tunerVars, pulse, channel, topology, lcls>>

\* line 135: the call is the last one of the recursion
FitsInOneSegment(numSteps, maxSteps) == Abs(numSteps) <= maxSteps

\* A move that writes the whole remaining count in every segment.
StepDesWrittenWholeRemainder(numSteps, maxSteps) == numSteps

\* lines 136 and 140: the value written to the step-count channel
StepDesWritten(numSteps, maxSteps) ==
    IF FitsInOneSegment(numSteps, maxSteps) THEN numSteps ELSE maxSteps

\* move, lines 135-136 and 139-140
MovePutStepDes ==
    /\ pc = "t_steps"
    /\ writes' = Put("NSTEPS", StepDesWritten(rem, arg.maxSteps))
    /\ pc' = "t_cmd"
    /\ UNCHANGED <<op, arg, err, ssaStatus, statusAtCall, rfState, meas, tunerVars, pulse, channel, topology, lcls>>

\* The direction channel without the inversion of line 150.
CommandPVNotInverted(numSteps, isHL) ==
    IF Sign(numSteps) = 1 THEN "MOV_REQ_POS" ELSE "MOV_REQ_NEG"

\* issueMoveCommand, lines 149-155: the direction channel written
\* An issueMoveCommand that takes zero for positive.
CommandPVZeroPositive(numSteps, isHL) ==
    LET n == IF isHL THEN numSteps * (0 - 1) ELSE numSteps
    IN  IF Sign(n) >= 0 THEN "MOV_REQ_POS" ELSE "MOV_REQ_NEG"

CommandPV(numSteps, isHL) ==
    LET n == IF isHL THEN numSteps * (0 - 1) ELSE numSteps
    IN  IF Sign(n) = 1 THEN "MOV_REQ_POS" ELSE "MOV_REQ_NEG"

\* issueMoveCommand, lines 149-155.  The motor starts on the command.
IssueMoveCommand ==
    /\ pc = "t_cmd"
    /\ writes' = Put(CommandPV(rem, arg.isHarmonicLinearizer), 1)
    /\ motor' = [moving |-> 1, done |-> 0]
    /\ pc' = "t_poll"
    /\ UNCHANGED <<op, arg, err, ssaStatus, statusAtCall, rfState, meas,
                   rem, chg, cache, cb, pulse, channel, topology, lcls>>

\* An issueMoveCommand that does not wait for the motor.
PollMotorMovingNoWait ==
    /\ pc = "t_poll"
    /\ pc' = "t_done"
    /\ UNCHANGED <<op, arg, err, writes, ssaStatus, statusAtCall, rfState, meas,
                   tunerVars, pulse, channel, topology, lcls>>

\* issueMoveCommand, lines 157-158: the loop is left when the delivered
\* STAT_MOV is not 1 (while it is 1 the thread sleeps and reads again).
PollMotorMoving ==
    /\ pc = "t_poll"
    /\ cache.moving # 1
    /\ pc' = "t_done"
    /\ UNCHANGED <<op, arg, err, writes, ssaStatus, statusAtCall, rfState, meas,
                   tunerVars, pulse, channel, topology, lcls>>

\* line 143-144: the arguments of the recursive call
RecursiveNumSteps(numSteps, maxSteps) == numSteps - (Sign(numSteps) * maxSteps)

\* A recursion that passes changeLimits = True.
RecursiveChangeLimitsTrue == TRUE

RecursiveChangeLimits == FALSE

\* A move that restores the defaults before it lets the motor error out.
CheckMotorDoneRestoreThenRaise ==
    /\ pc = "t_done"
    /\ \/ cache.done # 1
       \/ FitsInOneSegment(rem, arg.maxSteps)
       \/ Cardinality(WritesTo("NSTEPS")) < MaxSegments
    /\ IF cache.done # 1
       THEN /\ Raise("StepperError")
            /\ writes' = writes \o
                  <<[pv |-> "NSTEPS.DRVH", val |-> DEFAULT_STEPPER_MAX_STEPS],
                    [pv |-> "VELO", val |-> DEFAULT_STEPPER_SPEED]>>
            /\ UNCHANGED <<rem, chg>>
       ELSE /\ err' = err
            /\ writes' = writes
            /\ IF FitsInOneSegment(rem, arg.maxSteps)
               THEN /\ pc' = "t_restore_max"
                    /\ UNCHANGED <<rem, chg>>
               ELSE /\ rem' = RecursiveNumSteps(rem, arg.maxSteps)
                    /\ chg' = RecursiveChangeLimits
                    /\ pc' = EntryPc(RecursiveChangeLimits)
    /\ UNCHANGED <<op, arg, ssaStatus, statusAtCall, rfState, meas,
                   motor, cache, cb, pulse, channel, topology, lcls>>

\* A move that calls restoreDefaults after every segment that reported done.
CheckMotorDoneRestoreEarly ==
    /\ pc = "t_done"
    /\ IF cache.done # 1
       THEN Raise("StepperError")
       ELSE /\ err' = err
            /\ pc' = "t_restore_max"
    /\ UNCHANGED <<op, arg, writes, ssaStatus, statusAtCall, rfState, meas,
                   tunerVars, pulse, channel, topology, lcls>>

\* A move that commands the segment again when the motor is not done.
CheckMotorDoneRetry ==
    /\ pc = "t_done"
    /\ IF cache.done # 1
       THEN /\ pc' = "t_cmd"
            /\ UNCHANGED <<rem, chg>>
       ELSE IF FitsInOneSegment(rem, arg.maxSteps)
            THEN /\ pc' = "t_restore_max"
                 /\ UNCHANGED <<rem, chg>>
            ELSE /\ rem' = RecursiveNumSteps(rem, arg.maxSteps)
                 /\ chg' = RecursiveChangeLimits
                 /\ pc' = EntryPc(RecursiveChangeLimits)
    /\ UNCHANGED <<op, arg, err, writes, ssaStatus, statusAtCall, rfState, meas,
                   motor, cache, cb, pulse, channel, topology, lcls>>

\* issueMoveCommand, lines 160-161, and what move does when it returns:
\* restoreDefaults (line 138) or the recursive call (lines 143-144).
CheckMotorDone ==
    /\ pc = "t_done"
    /\ \/ cache.done # 1
       \/ FitsInOneSegment(rem, arg.maxSteps)
       \/ Cardinality(WritesTo("NSTEPS")) < MaxSegments
    /\ IF cache.done # 1
       THEN /\ Raise("StepperError")
            /\ UNCHANGED <<rem, chg>>
       ELSE /\ err' = err
            /\ IF FitsInOneSegment(rem, arg.maxSteps)
               THEN /\ pc' = "t_restore_max"
                    /\ UNCHANGED <<rem, chg>>
               ELSE /\ rem' = RecursiveNumSteps(rem, arg.maxSteps)
                    /\ chg' = RecursiveChangeLimits
                    /\ pc' = EntryPc(RecursiveChangeLimits)
    /\ UNCHANGED <<op, arg, writes, ssaStatus, statusAtCall, rfState, meas,
                   motor, cache, cb, pulse, channel, topology, lcls>>

\* A restoreDefaults that writes only when the move changed the limits.
RestoreDefaultsIfChanged ==
    /\ pc \in {"t_restore_max", "t_restore_speed"}
    /\ IF pc = "t_restore_max"
       THEN /\ writes' = IF arg.changeLimits
                         THEN Put("NSTEPS.DRVH", DEFAULT_STEPPER_MAX_STEPS)
                         ELSE writes
            /\ pc' = "t_restore_speed"
       ELSE /\ writes' = IF arg.changeLimits
                         THEN Put("VELO", DEFAULT_STEPPER_SPEED)
                         ELSE writes
            /\ pc' = "done"
    /\ UNCHANGED <<op, arg, err, ssaStatus, statusAtCall, rfState, meas, tunerVars, pulse, channel, topology, lcls>>

\* restoreDefaults, lines 113-115
RestoreDefaults ==
    /\ pc \in {"t_restore_max", "t_restore_speed"}
    /\ IF pc = "t_restore_max"
       THEN /\ writes' = Put("NSTEPS.DRVH", DEFAULT_STEPPER_MAX_STEPS)
            /\ pc' = "t_restore_speed"
       ELSE /\ writes' = Put("VELO", DEFAULT_STEPPER_SPEED)
            /\ pc' = "done"
    /\ UNCHANGED <<op, arg, err, ssaStatus, statusAtCall, rfState, meas, tunerVars, pulse, channel, topology, lcls>>

MoveInProgress == op = "StepperTuner.move" /\ pc \notin {"idle", "done", "raised"}

\* What an abort request does to the motor: a moving motor stops, and
\* reports done or not (the controller decides); an idle one is unaffected.
MotorAfterAbort ==
    IF motor.moving = 1 THEN {[moving |-> 0, done |-> d] : d \in {0, 1}}
                        ELSE {motor}

\* A callback that lets the limit itself pass.
TempStrictlyAbove(temp) == temp > STEPPER_TEMP_LIMIT

\* line 110: the test of the callback
TempTooHigh(temp) == temp >= STEPPER_TEMP_LIMIT

\* checkTemp, lines 109-111, run by the channel-access context on a change
\* of REG_TOTABS (line 107), at any point of the move.
CheckTemp ==
    /\ MoveInProgress
    /\ cb.n < MaxNotifications
    /\ \E t \in TempValues :
          /\ cb' = [n |-> cb.n + 1, temp |-> t, pc |-> pc]
          /\ IF TempTooHigh(t)
             THEN /\ writes' = Put("ABORT_REQ", 1)
                  /\ motor' \in MotorAfterAbort
             ELSE UNCHANGED <<writes, motor>>
    /\ UNCHANGED <<op, arg, pc, err, ssaStatus, statusAtCall, rfState, meas,
                   rem, chg, cache, pulse, channel, topology, lcls>>

\* The motor finishes the segment: it stops, and reports done unless it
\* stalled.
MotorStops ==
    /\ MoveInProgress
    /\ motor.moving = 1
    /\ \E d \in {0, 1} : motor' = [moving |-> 0, done |-> d]
    /\ UNCHANGED <<op, arg, pc, err, writes, ssaStatus, statusAtCall, rfState,
                   meas, rem, chg, cache, cb, pulse, channel, topology, lcls>>

\* The monitors deliver the current STAT_MOV and STAT_DONE to the PV objects,
\* each some time after the hardware changed.
MonitorDelivers ==
    /\ MoveInProgress
    /\ \/ /\ cache.moving # motor.moving
          /\ cache' = [cache EXCEPT !.moving = motor.moving]
       \/ /\ cache.done # motor.done
          /\ cache' = [cache EXCEPT !.done = motor.done]
    /\ UNCHANGED <<op, arg, pc, err, writes, ssaStatus, statusAtCall, rfState,
                   meas, rem, chg, motor, cb, pulse, channel, topology, lcls>>

-----------------------------------------------------------------------------
(* Cavity.checkAndSetOnTime / Cavity.pushGoButton *)

NOMINAL_PULSED_ONTIME == 70

MaxPulseStatus == 3

PulseStatusValues == 0..MaxPulseStatus

OnTimeValues == {NOMINAL_PULSED_ONTIME - 1, NOMINAL_PULSED_ONTIME,
                 NOMINAL_PULSED_ONTIME + 1}

NotRead == -1

CallCheckAndSetOnTime ==
    /\ pc = "idle"
    /\ op' = "Cavity.checkAndSetOnTime"
    /\ \E t \in OnTimeValues, s \in PulseStatusValues :
          pulse' = [pulse EXCEPT !.onTime = t, !.status = s]
    /\ pc' = "ontime_test"
    /\ UNCHANGED <<arg, err, writes, ssaStatus, statusAtCall, rfState, meas,
                   tunerVars, channel, topology, lcls>>

\* A checkAndSetOnTime that sets the on time and pushes the go button
\* whatever the on time is.
CheckAndSetOnTimeAlways ==
    /\ pc = "ontime_test"
    /\ writes' = Put("PULSE_ONTIME", NOMINAL_PULSED_ONTIME)
    /\ pulse' = [pulse EXCEPT !.onTimeRead = pulse.onTime,
                              !.onTime = NOMINAL_PULSED_ONTIME]
    /\ pc' = "go_put"
    /\ UNCHANGED <<op, arg, err, ssaStatus, statusAtCall, rfState, meas,
                   tunerVars, channel, topology, lcls>>

\* checkAndSetOnTime, lines 244-246: the test and the write of the on time.
CheckAndSetOnTime ==
    /\ pc = "ontime_test"
    /\ IF pulse.onTime # NOMINAL_PULSED_ONTIME
       THEN /\ writes' = Put("PULSE_ONTIME", NOMINAL_PULSED_ONTIME)
            /\ pulse' = [pulse EXCEPT !.onTimeRead = pulse.onTime,
                                      !.onTime = NOMINAL_PULSED_ONTIME]
            /\ pc' = "go_put"
       ELSE /\ writes' = writes
            /\ pulse' = [pulse EXCEPT !.onTimeRead = pulse.onTime]
            /\ pc' = "done"
    /\ UNCHANGED <<op, arg, err, ssaStatus, statusAtCall, rfState, meas,
                   tunerVars, channel, topology, lcls>>

CallPushGoButton ==
    /\ pc = "idle"
    /\ op' = "Cavity.pushGoButton"
    /\ \E s \in PulseStatusValues : pulse' = [pulse EXCEPT !.status = s]
    /\ pc' = "go_put"
    /\ UNCHANGED <<arg, err, writes, ssaStatus, statusAtCall, rfState, meas,
                   tunerVars, channel, topology, lcls>>

\* pushGoButton, line 255 (and line 247, the call from checkAndSetOnTime).
PushGoButtonPut ==
    /\ pc = "go_put"
    /\ writes' = Put("PULSE_DIFF_SUM", 1)
    /\ pc' = "go_poll"
    /\ UNCHANGED <<op, arg, err, ssaStatus, statusAtCall, rfState, meas,
                   tunerVars, pulse, channel, topology, lcls>>

\* line 256: the loop test.
PulseNotSettled(value) == value < 2

\* An overshoot test that also fires at the settled value.
PulseOvershootAtSettled(value) == value >= 2

\* line 258: the overshoot test.
PulseOvershoot(value) == value > 2

\* pushGoButton, lines 256-257: one read of PULSE_STATUS by the loop test.
PushGoButtonPoll ==
    /\ pc = "go_poll"
    /\ pulse' = [pulse EXCEPT !.loopRead = pulse.status]
    /\ pc' = IF PulseNotSettled(pulse.status) THEN "go_poll" ELSE "go_check"
    /\ UNCHANGED <<op, arg, err, writes, ssaStatus, statusAtCall, rfState,
                   meas, tunerVars, channel, topology, lcls>>

\* pushGoButton, lines 258-259: a second read of PULSE_STATUS.
PushGoButtonCheck ==
    /\ pc = "go_check"
    /\ pulse' = [pulse EXCEPT !.checkRead = pulse.status]
    /\ IF PulseOvershoot(pulse.status)
       THEN Raise("PulseError")
       ELSE pc' = "done" /\ err' = err
    /\ UNCHANGED <<op, arg, writes, ssaStatus, statusAtCall, rfState, meas,
                   tunerVars, channel, topology, lcls>>

\* The pulse status changes while pushGoButton runs.
PulseStatusChange ==
    /\ pc \in {"go_poll", "go_check"}
    /\ \E s \in PulseStatusValues \ {pulse.status} :
          pulse' = [pulse EXCEPT !.status = s]
    /\ UNCHANGED <<op, arg, pc, err, writes, ssaStatus, statusAtCall, rfState,
                   meas, tunerVars, channel, topology, lcls>>

-----------------------------------------------------------------------------
(* Magnet: bdes (setter), reset, turnOn, turnOff, degauss *)

\* Constants of scLinacUtils (stand-ins, as above).
MAGNET_TRIM_VALUE == 1
MAGNET_RESET_VALUE == 2
MAGNET_ON_VALUE == 3
MAGNET_OFF_VALUE == 4
MAGNET_DEGAUSS_VALUE == 5

MaxBdes == 2

BdesValues == 0..MaxBdes

MagnetOps == {"Magnet.bdes", "Magnet.reset", "Magnet.turnOn",
              "Magnet.turnOff", "Magnet.degauss"}

CallMagnet ==
    /\ pc = "idle"
    /\ \E o \in MagnetOps, value \in BdesValues :
          /\ o # "Magnet.bdes" => value = 0
          /\ op' = o
          /\ arg' = [value |-> value]
          /\ pc' = IF o = "Magnet.bdes" THEN "mag_bdes" ELSE "mag_ctrl"
    /\ UNCHANGED <<err, writes, ssaStatus, statusAtCall, rfState, meas,
                   tunerVars, pulse, channel, topology, lcls>>

\* bdes setter, line 338.
MagnetBdesPut ==
    /\ pc = "mag_bdes"
    /\ writes' = Put("BDES", arg.value)
    /\ pc' = "mag_ctrl"
    /\ UNCHANGED <<op, arg, err, ssaStatus, statusAtCall, rfState, meas,
                   tunerVars, pulse, channel, topology, lcls>>

\* A magnet whose every operation trims.
MagnetControlValueAlwaysTrim(o) == MAGNET_TRIM_VALUE

\* lines 339, 342, 345, 348, 351: the value each operation writes to CTRL.
MagnetControlValue(o) ==
    CASE o = "Magnet.bdes"    -> MAGNET_TRIM_VALUE
      [] o = "Magnet.reset"   -> MAGNET_RESET_VALUE
      [] o = "Magnet.turnOn"  -> MAGNET_ON_VALUE
      [] o = "Magnet.turnOff" -> MAGNET_OFF_VALUE
      [] o = "Magnet.degauss" -> MAGNET_DEGAUSS_VALUE

\* lines 339, 342, 345, 348, 351: the one write to the control channel.
MagnetControlPut ==
    /\ pc = "mag_ctrl"
    /\ writes' = Put("CTRL", MagnetControlValue(op))
    /\ pc' = "done"
    /\ UNCHANGED <<op, arg, err, ssaStatus, statusAtCall, rfState, meas,
                   tunerVars, pulse, channel, topology, lcls>>

-----------------------------------------------------------------------------
(* pyepicsUtils.PV: caget, caput, get, put *)

None == "None"

PVValues == {"a", "b", "c"}

CachedValues == PVValues \cup {None}

\* epics_caput returns 1 on success and -1 on a timeout.
CaputStatusValues == {-1, 1}

\* super().put returns, or raises pyexc.
PutOutcomes == {"ok", "pyexc"}

\* Iterations of a "while True" loop of caget or caput that are followed.
MaxOneShotTries == 5

hardwareVars == <<writes, ssaStatus, statusAtCall, rfState, meas, tunerVars,
                  pulse>>

\* An exhaustion test that fires one attempt early.
AttemptsExhaustedEarly(attempt) == attempt >= 3

\* lines 66 and 85.
AttemptsExhausted(attempt) == attempt > 3

\* A caput that takes any status for a success.
CaputSucceededAnyStatus(status) == status \in CaputStatusValues

\* line 50.
CaputSucceeded(status) == status = 1

CallGet ==
    /\ pc = "idle"
    /\ op' = "PV.get"
    /\ \E use_caget \in BOOLEAN, c \in CachedValues :
          /\ arg' = [use_caget |-> use_caget]
          /\ channel' = [channel EXCEPT !.cached = c, !.attempt = 1]
          /\ pc' = IF use_caget THEN "caget" ELSE "get"
    /\ UNCHANGED <<err, hardwareVars, topology, lcls>>

\* caget, lines 39-45: one iteration of the loop.
PVCaget ==
    /\ pc = "caget"
    /\ Len(channel.log) < MaxOneShotTries
    /\ \E value \in CachedValues :
          /\ channel' = [channel EXCEPT !.log = Append(@, value),
                                        !.calls = Append(@, "epics_caget"),
                                        !.result = value]
          /\ pc' = IF value # None THEN "done" ELSE "caget"
    /\ UNCHANGED <<op, arg, err, hardwareVars, topology, lcls>>

\* get, lines 65-74: one iteration of the loop.
PVGet ==
    /\ pc = "get"
    /\ IF AttemptsExhausted(channel.attempt)
       THEN /\ Raise("PVInvalidError")
            /\ channel' = channel
       ELSE /\ err' = err
            /\ IF channel.cached # None
               THEN /\ channel' = [channel EXCEPT
                                      !.log = Append(@, channel.cached),
                                      !.calls = Append(@, "data"),
                                      !.result = channel.cached]
                    /\ pc' = "done"
               ELSE /\ channel' = [channel EXCEPT
                                      !.log = Append(@, channel.cached),
                                      !.calls = Append(@, "data"),
                                      !.attempt = @ + 1]
                    /\ pc' = "get"
    /\ UNCHANGED <<op, arg, hardwareVars, topology, lcls>>

\* The monitor delivers a value, or the channel disconnects, during the
\* sleep of get.
PVMonitorUpdate ==
    /\ pc = "get"
    /\ \E c \in CachedValues \ {channel.cached} :
          channel' = [channel EXCEPT !.cached = c]
    /\ UNCHANGED <<op, arg, pc, err, hardwareVars, topology, lcls>>

CallPut ==
    /\ pc = "idle"
    /\ op' = "PV.put"
    /\ \E use_caput \in BOOLEAN, value \in PVValues :
          /\ arg' = [use_caput |-> use_caput, value |-> value]
          /\ pc' = IF use_caput THEN "caput" ELSE "put"
    /\ channel' = [channel EXCEPT !.attempt = 1]
    /\ UNCHANGED <<err, hardwareVars, topology, lcls>>

\* caput, lines 48-54: one iteration of the loop.
PVCaput ==
    /\ pc = "caput"
    /\ Len(channel.log) < MaxOneShotTries
    /\ \E status \in CaputStatusValues :
          /\ channel' = [channel EXCEPT
                            !.log = Append(@, status),
                            !.calls = Append(@, "epics_caput"),
                            !.written = IF status = 1 THEN arg.value ELSE @]
          /\ pc' = IF CaputSucceeded(status) THEN "done" ELSE "caput"
    /\ UNCHANGED <<op, arg, err, hardwareVars, topology, lcls>>

\* A put that falls back to caput once its attempts are exhausted.
PVPutFallsBackToCaput ==
    /\ pc = "put"
    /\ IF AttemptsExhausted(channel.attempt)
       THEN /\ pc' = "caput"
            /\ channel' = channel
       ELSE \E outcome \in PutOutcomes :
               IF outcome = "ok"
               THEN /\ channel' = [channel EXCEPT
                                      !.log = Append(@, outcome),
                                      !.calls = Append(@, "super.put"),
                                      !.written = arg.value]
                    /\ pc' = "done"
               ELSE /\ channel' = [channel EXCEPT
                                      !.log = Append(@, outcome),
                                      !.calls = Append(@, "super.put"),
                                      !.attempt = @ + 1]
                    /\ pc' = "put"
    /\ UNCHANGED <<op, arg, err, hardwareVars, topology, lcls>>

\* put, lines 84-94: one iteration of the loop.
PVPut ==
    /\ pc = "put"
    /\ IF AttemptsExhausted(channel.attempt)
       THEN /\ Raise("PVInvalidError")
            /\ channel' = channel
       ELSE /\ err' = err
            /\ \E outcome \in PutOutcomes :
                  IF outcome = "ok"
                  THEN /\ channel' = [channel EXCEPT
                                         !.log = Append(@, outcome),
                                         !.calls = Append(@, "super.put"),
                                         !.written = arg.value]
                       /\ pc' = "done"
                  ELSE /\ channel' = [channel EXCEPT
                                         !.log = Append(@, outcome),
                                         !.calls = Append(@, "super.put"),
                                         !.attempt = @ + 1]
                       /\ pc' = "put"
    /\ UNCHANGED <<op, arg, hardwareVars, topology, lcls>>

-----------------------------------------------------------------------------
(* Rack.__init__ / Cryomodule.__init__ *)

CryoNames == {"01", "02", "H1", "H2"}

\* Names a caller may give a Rack.
RackNames == {"A", "B", "C", "a"}

MagnetNames == {"QUAD", "XCOR", "YCOR"}

\* An empty dict.
EmptyMap == [n \in {} |-> 0]

\* dict.update: the entries of new replace those of old.
Update(old, new) == new @@ old

Min(S) == CHOOSE n \in S : \A m \in S : n <= m

\* A rack "B" that starts at cavity 4.
RackCavityNumsOverlap(rackName) ==
    IF rackName = "A" THEN 1..4
    ELSE IF rackName = "B" THEN 4..8
    ELSE {}

\* A Rack in which every name but "A" is taken for "B".
RackCavityNumsElse(rackName) ==
    IF rackName = "A" THEN 1..4 ELSE 5..8

\* Rack.__init__, lines 370-385: range(1, 5), range(5, 9), or none ("Bad
\* rack name").
RackCavityNums(rackName) ==
    IF rackName = "A" THEN 1..4
    ELSE IF rackName = "B" THEN 5..8
    ELSE {}

\* A pairing of neighbours.
CavitySSAPairsAdjacent == <<<<1, 2>>, <<3, 4>>, <<5, 6>>, <<7, 8>>>>

\* line 436.
CavitySSAPairs == <<<<1, 5>>, <<2, 6>>, <<3, 7>>, <<4, 8>>>>

CallCryomodule ==
    /\ pc = "idle"
    /\ op' = "Cryomodule"
    /\ \E cryoName \in CryoNames, isHarmonicLinearizer \in BOOLEAN :
          arg' = [cryoName |-> cryoName,
                  isHarmonicLinearizer |-> isHarmonicLinearizer]
    /\ pc' = "cm_init"
    /\ UNCHANGED <<err, hardwareVars, channel, topology, lcls>>

\* Cryomodule.__init__, lines 402-409.
CryomoduleInit ==
    /\ pc = "cm_init"
    /\ topology' = [topology EXCEPT
                       !.name = arg.cryoName,
                       !.isHarmonicLinearizer = arg.isHarmonicLinearizer,
                       !.magnets = IF ~arg.isHarmonicLinearizer
                                   THEN MagnetNames ELSE {}]
    /\ pc' = "rack_init"
    /\ UNCHANGED <<op, arg, err, hardwareVars, channel, lcls>>

CallRack ==
    /\ pc = "idle"
    /\ op' = "Rack"
    /\ \E rackName \in RackNames : arg' = [rackName |-> rackName]
    /\ pc' = "rack_init"
    /\ UNCHANGED <<err, hardwareVars, channel, topology, lcls>>

\* The rackName of the Rack call at hand: Cryomodule.__init__ makes "A",
\* then "B" (lines 423-428).
RackNameArg ==
    IF op = "Rack" THEN arg.rackName
    ELSE IF topology.rackObjs = <<>> THEN "A" ELSE "B"

\* Rack.__init__, lines 365-368.
RackInit ==
    /\ pc = "rack_init"
    /\ topology' = [topology EXCEPT
                       !.rackObjs = Append(@, [rackName |-> RackNameArg,
                                               cavities |-> EmptyMap])]
    /\ pc' = "rack_cav"
    /\ UNCHANGED <<op, arg, err, hardwareVars, channel, lcls>>

\* Where the constructor of the rack-th Rack returns to.
RackReturn(rack) ==
    IF op = "Rack" THEN "done"
    ELSE IF rack = 1 THEN "rack_init" ELSE "cm_cavities"

\* Rack.__init__, lines 370-385: one iteration of the loop of its branch, or
\* the raise.  Cavity.__init__, lines 174-192: number, rack, ssa.
\* SSA.__init__, line 18: cavity.
RackCavities ==
    /\ pc = "rack_cav"
    /\ LET rack == Len(topology.rackObjs)
           nums == RackCavityNums(topology.rackObjs[rack].rackName)
           left == nums \ DOMAIN topology.rackObjs[rack].cavities
           cav  == Len(topology.cavObjs) + 1
           ssa  == Len(topology.ssaObjs) + 1
       IN  IF nums = {}
           THEN /\ Raise("Exception")
                /\ topology' = topology
           ELSE /\ topology' = [topology EXCEPT
                      !.cavObjs = Append(@, [number |-> Min(left),
                                             rack |-> rack, ssa |-> ssa]),
                      !.ssaObjs = Append(@, [cavity |-> cav]),
                      !.rackObjs[rack].cavities = (Min(left) :> cav) @@ @]
                /\ pc' = IF left = {Min(left)} THEN RackReturn(rack)
                         ELSE "rack_cav"
                /\ err' = err
    /\ UNCHANGED <<op, arg, hardwareVars, channel, lcls>>

\* Cryomodule.__init__, lines 423-432.
CryomoduleCavities ==
    /\ pc = "cm_cavities"
    /\ topology' = [topology EXCEPT
          !.racks = ("A" :> 1) @@ ("B" :> 2),
          !.cavities = Update(Update(EmptyMap, topology.rackObjs[1].cavities),
                              topology.rackObjs[2].cavities)]
    /\ pc' = IF topology.isHarmonicLinearizer THEN "cm_pairs" ELSE "done"
    /\ UNCHANGED <<op, arg, err, hardwareVars, channel, lcls>>

\* Cryomodule.__init__, lines 438-439: one iteration of the loop.
CryomoduleSharePairs ==
    /\ pc = "cm_pairs"
    /\ LET leader   == CavitySSAPairs[topology.pair][1]
           follower == CavitySSAPairs[topology.pair][2]
       IN  topology' = [topology EXCEPT
              !.cavObjs[topology.cavities[follower]].ssa =
                  topology.cavObjs[topology.cavities[leader]].ssa,
              !.pair = @ + 1]
    /\ pc' = IF topology.pair = Len(CavitySSAPairs) THEN "done" ELSE "cm_pairs"
    /\ UNCHANGED <<op, arg, err, hardwareVars, channel, lcls>>

-----------------------------------------------------------------------------
(* Linac / make_lcls_cryomodules *)

\* lines 498-503.
L0B == <<"01">>
L1B == <<"02", "03">>
L1BHL == <<"H1", "H2">>
L2B == <<"04", "05", "06", "07", "08", "09", "10", "11", "12", "13", "14",
         "15">>
L3B == <<"16", "17", "18", "19", "20", "21", "22", "23", "24", "25", "26",
         "27", "28", "29", "30", "31", "32", "33", "34", "35">>

\* line 505.
LINAC_TUPLES == <<<<"L0B", L0B>>, <<"L1B", L1B>>, <<"L2B", L2B>>,
                  <<"L3B", L3B>>>>

\* list[i] of Python, whose first index is 0.
Index(list, i) == list[i + 1]

\* A Cryomodule that always gets its magnets.
CryomoduleMagnetsAlways(isHarmonicLinearizer) == MagnetNames

\* Cryomodule.__init__, lines 406-409.
CryomoduleMagnets(isHarmonicLinearizer) ==
    IF ~isHarmonicLinearizer THEN MagnetNames ELSE {}

\* line 476: the loop of addCryomodules goes on, or addCryomodules returns
\* to line 528 or to line 537.
AfterAddCryomodule(k, list, isHarmonicLinearizer) ==
    IF k < Len(list) THEN "add_new"
    ELSE IF isHarmonicLinearizer THEN "mk_update_hl" ELSE "mk_append"

\* lines 517-518.
CallMakeLclsCryomodules ==
    /\ pc = "idle"
    /\ op' = "make_lcls_cryomodules"
    /\ lcls' = [lcls EXCEPT !.cryomoduleObjects = EmptyMap,
                            !.linacObjects = <<>>,
                            !.idx = 0]
    /\ pc' = "mk_linac"
    /\ UNCHANGED <<arg, err, hardwareVars, channel, topology>>

\* lines 520-523 and Linac.__init__, lines 459-460: a new Linac, and the
\* call of its addCryomodules.
MakeLinac ==
    /\ pc = "mk_linac"
    /\ lcls' = [lcls EXCEPT
          !.linacObjs = Append(@, [name |-> Index(LINAC_TUPLES, lcls.idx)[1],
                                   cryomodules |-> EmptyMap]),
          !.linac = Len(lcls.linacObjs) + 1,
          !.list = Index(LINAC_TUPLES, lcls.idx)[2],
          !.k = 0,
          !.isHarmonicLinearizer = FALSE]
    /\ pc' = AfterAddCryomodule(0, Index(LINAC_TUPLES, lcls.idx)[2], FALSE)
    /\ UNCHANGED <<op, arg, err, hardwareVars, channel, topology>>

\* addCryomodule, line 488, and Cryomodule.__init__, lines 402-404.
AddCryomoduleNew ==
    /\ pc = "add_new"
    /\ lcls' = [lcls EXCEPT
          !.cryoObjs = Append(@, [name |-> Index(lcls.list, lcls.k),
                                  linac |-> lcls.linac,
                                  isHarmonicLinearizer |->
                                      lcls.isHarmonicLinearizer,
                                  magnets |-> {},
                                  racks |-> {},
                                  cavities |-> {}])]
    /\ pc' = "add_magnets"
    /\ UNCHANGED <<op, arg, err, hardwareVars, channel, topology>>

\* Cryomodule.__init__, lines 406-409.
AddCryomoduleMagnets ==
    /\ pc = "add_magnets"
    /\ lcls' = [lcls EXCEPT
          !.cryoObjs[Len(lcls.cryoObjs)].magnets =
              CryomoduleMagnets(lcls.isHarmonicLinearizer)]
    /\ pc' = "add_racks"
    /\ UNCHANGED <<op, arg, err, hardwareVars, channel, topology>>

\* Cryomodule.__init__, lines 423-432: the racks "A" and "B" and their
\* cavities.
AddCryomoduleRacks ==
    /\ pc = "add_racks"
    /\ lcls' = [lcls EXCEPT
          !.cryoObjs[Len(lcls.cryoObjs)].racks = {"A", "B"},
          !.cryoObjs[Len(lcls.cryoObjs)].cavities =
              RackCavityNums("A") \cup RackCavityNums("B")]
    /\ pc' = "add_store"
    /\ UNCHANGED <<op, arg, err, hardwareVars, channel, topology>>

\* addCryomodule, line 488: the assignment to self.cryomodules, and the
\* loop of addCryomodules, line 476.
AddCryomoduleStore ==
    /\ pc = "add_store"
    /\ lcls' = [lcls EXCEPT
          !.linacObjs[lcls.linac].cryomodules =
              (Index(lcls.list, lcls.k) :> Len(lcls.cryoObjs)) @@ @,
          !.k = @ + 1]
    /\ pc' = AfterAddCryomodule(lcls.k + 1, lcls.list,
                                lcls.isHarmonicLinearizer)
    /\ UNCHANGED <<op, arg, err, hardwareVars, channel, topology>>

\* line 528.
MakeAppend ==
    /\ pc = "mk_append"
    /\ lcls' = [lcls EXCEPT !.linacObjects = Append(@, lcls.linac)]
    /\ pc' = "mk_update"
    /\ UNCHANGED <<op, arg, err, hardwareVars, channel, topology>>

\* line 529, and the loop of line 520.
MakeUpdate ==
    /\ pc = "mk_update"
    /\ lcls' = [lcls EXCEPT
          !.cryomoduleObjects =
              Update(@, lcls.linacObjs[lcls.linac].cryomodules),
          !.idx = @ + 1]
    /\ pc' = IF lcls.idx + 1 < Len(LINAC_TUPLES) THEN "mk_linac" ELSE "mk_hl"
    /\ UNCHANGED <<op, arg, err, hardwareVars, channel, topology>>

\* lines 531-536: addCryomodules of linacObjects[1] with L1BHL.
MakeAddHarmonicLinearizers ==
    /\ pc = "mk_hl"
    /\ lcls' = [lcls EXCEPT !.linac = Index(lcls.linacObjects, 1),
                            !.list = L1BHL,
                            !.k = 0,
                            !.isHarmonicLinearizer = TRUE]
    /\ pc' = AfterAddCryomodule(0, L1BHL, TRUE)
    /\ UNCHANGED <<op, arg, err, hardwareVars, channel, topology>>

\* lines 537-538.
MakeUpdateAndReturn ==
    /\ pc = "mk_update_hl"
    /\ lcls' = [lcls EXCEPT
          !.cryomoduleObjects =
              Update(@, lcls.linacObjs[Index(lcls.linacObjects, 1)].cryomodules)]
    /\ pc' = "done"
    /\ UNCHANGED <<op, arg, err, hardwareVars, channel, topology>>

-----------------------------------------------------------------------------
Init ==
    /\ op = "none"
    /\ arg = [turnOn |-> FALSE]
    /\ pc = "idle"
    /\ err = "none"
    /\ writes = <<>>
    /\ ssaStatus = SSA_STATUS_ON_VALUE
    /\ statusAtCall = SSA_STATUS_ON_VALUE
    /\ rfState = 0
    /\ meas = [slope |-> 0, q |-> 0, scale |-> 0]
    /\ rem = 0
    /\ chg = FALSE
    /\ motor = [moving |-> 0, done |-> 1]
    /\ cache = [moving |-> 0, done |-> 1]
    /\ cb = [n |-> 0, temp |-> 0, pc |-> "idle"]
    /\ pulse = [status |-> 0, onTime |-> NOMINAL_PULSED_ONTIME,
                onTimeRead |-> NotRead, loopRead |-> NotRead,
                checkRead |-> NotRead]
    /\ channel = [cached |-> None, written |-> None, attempt |-> 1,
                  log |-> <<>>, calls |-> <<>>, result |-> None]
    /\ topology = [name |-> "", isHarmonicLinearizer |-> FALSE,
                   magnets |-> {}, racks |-> EmptyMap, cavities |-> EmptyMap,
                   rackObjs |-> <<>>, cavObjs |-> <<>>, ssaObjs |-> <<>>,
                   pair |-> 1]
    /\ lcls = [linacObjs |-> <<>>, cryoObjs |-> <<>>, linacObjects |-> <<>>,
               cryomoduleObjects |-> EmptyMap, linac |-> 0, list |-> <<>>,
               k |-> 0, isHarmonicLinearizer |-> FALSE, idx |-> 0]

NextPower ==
    \/ CallSSA
    \/ SSATest
    \/ SSAVerify
    \/ SSAStatusChange
    \/ CallCavityPower
    \/ CavitySetPowerState
    \/ RFStateFollows
    \/ CallCavityCalibration
    \/ CavityResetAndDrive
    \/ RunCalibrationStart
    \/ RunCalibrationEnd
    \/ PushAndSaveCalibrationChange
    \/ CallCheckAndSetOnTime
    \/ CheckAndSetOnTime
    \/ CallPushGoButton
    \/ PushGoButtonPut
    \/ PushGoButtonPoll
    \/ PushGoButtonCheck
    \/ PulseStatusChange
    \/ CallMagnet
    \/ MagnetBdesPut
    \/ MagnetControlPut

SpecPower == Init /\ [][NextPower]_vars

NextTuner ==
    \/ CallMove
    \/ MoveChangeLimits
    \/ MovePutStepDes
    \/ IssueMoveCommand
    \/ PollMotorMoving
    \/ CheckMotorDone
    \/ RestoreDefaults
    \/ CheckTemp
    \/ MotorStops
    \/ MonitorDelivers

SpecTuner == Init /\ [][NextTuner]_vars

\* move with any maxSteps and speed, the temperature callback not running.
NextMoveLimits ==
    \/ CallMoveAnyLimits
    \/ MoveChangeLimits
    \/ MovePutStepDes
    \/ IssueMoveCommand
    \/ PollMotorMoving
    \/ CheckMotorDone
    \/ RestoreDefaults
    \/ MotorStops
    \/ MonitorDelivers

SpecMoveLimits == Init /\ [][NextMoveLimits]_vars

NextChannel ==
    \/ CallGet
    \/ PVCaget
    \/ PVGet
    \/ PVMonitorUpdate
    \/ CallPut
    \/ PVCaput
    \/ PVPut

SpecChannel == Init /\ [][NextChannel]_vars

NextTopology ==
    \/ CallCryomodule
    \/ CryomoduleInit
    \/ CallRack
    \/ RackInit
    \/ RackCavities
    \/ CryomoduleCavities
    \/ CryomoduleSharePairs

SpecTopology == Init /\ [][NextTopology]_vars

NextLinacs ==
    \/ CallMakeLclsCryomodules
    \/ MakeLinac
    \/ AddCryomoduleNew
    \/ AddCryomoduleMagnets
    \/ AddCryomoduleRacks
    \/ AddCryomoduleStore
    \/ MakeAppend
    \/ MakeUpdate
    \/ MakeAddHarmonicLinearizers
    \/ MakeUpdateAndReturn

SpecLinacs == Init /\ [][NextLinacs]_vars

-----------------------------------------------------------------------------
(* Properties *)

Count(pv) == Cardinality(WritesTo(pv))

ON == SSA_STATUS_ON_VALUE

\* setPowerState has run with the given turnOn and is past its first test.
SSAPastTest(turnOn) ==
    /\ op \in SSAOps
    /\ arg.turnOn = turnOn
    /\ pc \notin {"idle", "ssa_test"}

\* C1: setPowerState(True) writes "turn on" never when the status read ON at
\* the call, and exactly once, before the verification, when it did not.
C1_TurnOnWrittenIffNotOn ==
    SSAPastTest(TRUE) =>
        IF statusAtCall = ON THEN Count("SSA:PowerOn") = 0
                             ELSE Count("SSA:PowerOn") = 1

C3_RaisesWithoutFurtherWrite ==
    (SSAPastTest(TRUE) /\ pc # "ssa_sleep7" /\ ssaStatus # ON) =>
        /\ pc = "raised"
        /\ err = "SSAPowerError"
        /\ writes = <<[pv |-> "SSA:PowerOn", val |-> 1]>>

C3_Witness ==
    /\ SSAPastTest(TRUE)
    /\ statusAtCall # ON
    /\ ssaStatus # ON
    /\ pc = "raised"
    /\ err = "SSAPowerError"
    /\ writes = <<[pv |-> "SSA:PowerOn", val |-> 1]>>

IsStepDes(w) == w.pv = "NSTEPS"
IsCommand(w) == w.pv \in {"MOV_REQ_POS", "MOV_REQ_NEG"}
IsLimit(w) == w.pv \in {"NSTEPS.DRVH", "VELO"}
IsAbort(w) == w.pv = "ABORT_REQ"

StepDesWrites == SelectSeq(writes, IsStepDes)
CommandWrites == SelectSeq(writes, IsCommand)

\* The direction the tuner moves for a command: on a harmonic lineariser the
\* positive channel drives the tuner the negative way.
Direction(w) ==
    IF (w.pv = "MOV_REQ_POS") # arg.isHarmonicLinearizer THEN 1 ELSE 0 - 1

\* The signed step count of segment i: the count written to NSTEPS, taken in
\* the direction of the command that followed it.
SegmentSteps(i) == Direction(CommandWrites[i]) * Abs(StepDesWrites[i].val)

RECURSIVE SumSegments(_)
SumSegments(k) == IF k = 0 THEN 0 ELSE SumSegments(k - 1) + SegmentSteps(k)

MoveOp == op = "StepperTuner.move"

\* C4: a completed move(numSteps, maxSteps >= 1) has issued segments that sum
\* to numSteps, all but the last of magnitude maxSteps, the last the
\* remainder, none above maxSteps.
C4_SegmentsSumToNumSteps ==
    (MoveOp /\ pc = "done") =>
        LET k == Len(CommandWrites) IN
        /\ k >= 1
        /\ Len(StepDesWrites) = k
        /\ SumSegments(k) = arg.numSteps
        /\ \A i \in 1..k :
              /\ Abs(SegmentSteps(i)) <= arg.maxSteps
              /\ i < k => Abs(SegmentSteps(i)) = arg.maxSteps
              /\ SegmentSteps(i) * Sign(arg.numSteps) >= 0
        /\ Abs(SegmentSteps(k)) = Abs(arg.numSteps) - (k - 1) * arg.maxSteps

\* move(5, 2) on a non-harmonic tuner has issued +2, +2, +1.
C4_Witness ==
    /\ MoveOp /\ pc = "done"
    /\ arg.numSteps = 5 /\ arg.maxSteps = 2 /\ ~arg.isHarmonicLinearizer
    /\ Len(CommandWrites) = 3
    /\ <<SegmentSteps(1), SegmentSteps(2), SegmentSteps(3)>> = <<2, 2, 1>>

FirstCommand == CHOOSE i \in 1..Len(writes) :
                    IsCommand(writes[i]) /\ \A j \in 1..(i - 1) : ~IsCommand(writes[j])

\* C5: in a move with changeLimits and abs(numSteps) > maxSteps, from the
\* first motion command until restoreDefaults each limit channel has been
\* written exactly once, and that before the first motion command.
C5_LimitsWrittenOnceBeforeFirstCommand ==
    (/\ MoveOp /\ arg.changeLimits /\ Abs(arg.numSteps) > arg.maxSteps
     /\ Len(CommandWrites) >= 1
     /\ pc \notin {"t_restore_speed", "done"}) =>
        /\ Count("NSTEPS.DRVH") = 1
        /\ Count("VELO") = 1
        /\ \A i \in 1..Len(writes) : IsLimit(writes[i]) => i < FirstCommand

\* Three segments done, the limits written once, the defaults not yet
\* restored.
C5_Witness ==
    /\ MoveOp /\ arg.changeLimits /\ Abs(arg.numSteps) > arg.maxSteps
    /\ pc = "t_restore_max"
    /\ Len(CommandWrites) = 3
    /\ Count("NSTEPS.DRVH") = 1 /\ Count("VELO") = 1

\* C6: every issueMoveCommand, in every segment, writes the positive channel
\* for numSteps > 0 and the negative one for numSteps < 0 on a non-harmonic
\* tuner, and the other way round on a harmonic-lineariser tuner.
C6_DirectionInvertedOnHarmonicLinearizer ==
    [][(pc = "t_cmd" /\ pc' = "t_poll" /\ rem # 0) =>
          /\ Len(writes') = Len(writes) + 1
          /\ writes'[Len(writes')].val = 1
          /\ writes'[Len(writes')].pv =
                IF (rem > 0) # arg.isHarmonicLinearizer
                THEN "MOV_REQ_POS" ELSE "MOV_REQ_NEG"]_vars

\* A positive multi-segment move on a harmonic lineariser: every command
\* went to the negative channel.
C6_Witness ==
    /\ MoveOp /\ pc = "done"
    /\ arg.isHarmonicLinearizer /\ arg.numSteps > arg.maxSteps
    /\ Len(CommandWrites) >= 2
    /\ \A i \in 1..Len(CommandWrites) : CommandWrites[i].pv = "MOV_REQ_NEG"

\* C7: every run of the callback, wherever the move is, writes the abort
\* channel (and nothing else) if the temperature read is at or above the
\* limit, and writes nothing if it is below.
C7_CallbackAbortsAtOrAboveLimit ==
    [][cb'.n = cb.n + 1 =>
          /\ cb'.pc = pc
          /\ IF cb'.temp >= STEPPER_TEMP_LIMIT
             THEN writes' = Append(writes, [pv |-> "ABORT_REQ", val |-> 1])
             ELSE writes' = writes]_vars

\* The callback ran while the move was polling the motor, read exactly the
\* limit, and wrote the abort.
C7_Witness ==
    /\ cb.n = 1 /\ cb.pc = "t_poll" /\ cb.temp = STEPPER_TEMP_LIMIT
    /\ Count("ABORT_REQ") = 1

\* C8: after an abort written once the move has commanded a segment, the move
\* writes no further motion command.
C8_NoMotionCommandAfterAbort ==
    MoveOp =>
        \A i \in 1..Len(writes) :
            (IsAbort(writes[i]) /\ \E h \in 1..(i - 1) : IsCommand(writes[h])) =>
                \A j \in (i + 1)..Len(writes) : ~IsCommand(writes[j])

\* C9: Cavity.setPowerState returns normally only when the RF state equals
\* the desired state.
C9_ReturnsOnlyInDesiredState ==
    (op \in CavityPowerOps /\ pc = "done") =>
        rfState = DesiredState(arg.turnOn)

Outside(v, lo, hi) == v < lo \/ v > hi

AllBefore(pv1, pv2) ==
    \A i \in WritesTo(pv1), j \in WritesTo(pv2) : i < j

IsPrefix(a, b) == Len(a) <= Len(b) /\ SubSeq(b, 1, Len(a)) = a

CavityCalibrationWrites ==
    <<[pv |-> "INTLK_RESET_ALL", val |-> 1],
      [pv |-> "SEL_ASET", val |-> 15],
      [pv |-> "PROBECALSTRT", val |-> 1],
      [pv |-> "PUSH_QLOADED.PROC", val |-> 1],
      [pv |-> "SAVE_QLOADED.PROC", val |-> 1],
      [pv |-> "PUSH_CAV_SCALE.PROC", val |-> 1],
      [pv |-> "SAVE_CAV_SCALE.PROC", val |-> 1]>>

\* C12: Cavity.runCalibration writes interlock reset, drive level, sweep
\* start, loaded-Q push/save, cavity-scale push/save in this order; the
\* loaded Q is pushed exactly when the sweep completed with the loaded Q
\* within the caller's limits, the cavity scale exactly when it is then
\* within the fixed limits; a cavity-scale failure leaves the loaded-Q push
\* and save as the last writes.
C12_CavityCalibrationOrder ==
    op = "Cavity.runCalibration" =>
        /\ IsPrefix(writes, CavityCalibrationWrites)
        /\ Len(writes) \in {0, 1, 2, 3, 5, 7}
        /\ Len(writes) >= 5 <=>
              /\ pc \in {"push_scale", "done", "raised"}
              /\ pc = "raised" => err = "CavityScaleFactorCalibrationError"
        /\ Len(writes) >= 5 =>
              ~Outside(meas.q, arg.loadedQLowerlimit, arg.loadedQUpperlimit)
        /\ (pc = "raised" /\ Len(writes) = 3 /\ meas.q # 0) =>
              Outside(meas.q, arg.loadedQLowerlimit, arg.loadedQUpperlimit)
        /\ Len(writes) = 7 <=> pc = "done"
        /\ pc = "done" =>
              ~Outside(meas.scale, CAVITY_SCALE_LOWER_LIMIT, CAVITY_SCALE_UPPER_LIMIT)
        /\ (pc = "raised" /\ Len(writes) = 5) =>
              Outside(meas.scale, CAVITY_SCALE_LOWER_LIMIT, CAVITY_SCALE_UPPER_LIMIT)

\* The loaded Q passed limits of the caller that are not the default ones
\* and was pushed and saved; the cavity scale then failed and nothing was
\* written after the loaded-Q save.
C12_Witness ==
    /\ op = "Cavity.runCalibration"
    /\ pc = "raised" /\ err = "CavityScaleFactorCalibrationError"
    /\ Outside(meas.q, LOADED_Q_LOWER_LIMIT, LOADED_Q_UPPER_LIMIT)
    /\ writes = SubSeq(CavityCalibrationWrites, 1, 5)

PulseOps == {"Cavity.pushGoButton", "Cavity.checkAndSetOnTime"}

\* pushGoButton has been entered and has written the go button.
PastGoPut == pc \in {"go_poll", "go_check"} \/ pulse.loopRead # NotRead

\* C13: pushGoButton writes the go button exactly once, as its first step;
\* it ends only after its loop read a pulse status of 2 or more; it raises
\* PulseError exactly when the status it then read is above 2, and returns
\* normally when that status is 2.
C13_GoOnceThenSettledOrOvershoot ==
    op \in PulseOps =>
        /\ Count("PULSE_DIFF_SUM") = (IF PastGoPut THEN 1 ELSE 0)
        /\ PastGoPut => writes[Len(writes)] = [pv |-> "PULSE_DIFF_SUM", val |-> 1]
        /\ pc = "go_poll" => pulse.loopRead \in {NotRead, 0, 1}
        /\ (pc \in {"go_check", "raised"} \/ (pc = "done" /\ PastGoPut)) =>
              pulse.loopRead >= 2
        /\ pc = "raised" <=> pulse.checkRead > 2
        /\ pc = "raised" => err = "PulseError"
        /\ pulse.checkRead = 2 => pc = "done" /\ err = "none"

\* pushGoButton ended its loop on a status of 2 or more and raised on a
\* status of 3.
C13_Witness ==
    /\ op = "Cavity.pushGoButton"
    /\ pc = "raised" /\ err = "PulseError"
    /\ pulse.loopRead >= 2 /\ pulse.checkRead = 3
    /\ Count("PULSE_DIFF_SUM") = 1

\* C14: checkAndSetOnTime writes nothing when the on time it reads is the
\* nominal one; otherwise its first write is the nominal value to the on-time
\* channel and its second, and last, the go button.
C14_OnTimeWrittenOnlyIfNotNominal ==
    (op = "Cavity.checkAndSetOnTime" /\ pc # "ontime_test") =>
        IF pulse.onTimeRead = NOMINAL_PULSED_ONTIME
        THEN writes = <<>> /\ pc = "done"
        ELSE /\ IsPrefix(writes, <<[pv |-> "PULSE_ONTIME",
                                    val |-> NOMINAL_PULSED_ONTIME],
                                   [pv |-> "PULSE_DIFF_SUM", val |-> 1]>>)
             /\ Len(writes) = (IF pc = "go_put" THEN 1 ELSE 2)

\* The on time was nominal and checkAndSetOnTime returned without a write.
C14_Witness ==
    /\ op = "Cavity.checkAndSetOnTime"
    /\ pc = "done"
    /\ pulse.onTimeRead = NOMINAL_PULSED_ONTIME
    /\ writes = <<>>

CachedGet == op = "PV.get" /\ ~arg.use_caget

PrimaryPut == op = "PV.put" /\ ~arg.use_caput

OneShotPut == op = "PV.put" /\ arg.use_caput

\* Every provider call of the get or put in progress, but possibly the last
\* one, gave the result x.
AllButLast(x) == \A i \in 1..(Len(channel.log) - 1) : channel.log[i] = x

Last == channel.log[Len(channel.log)]

\* C15: a put, with either strategy, makes at most 3 provider attempts when
\* every attempt fails, and then raises PVInvalidError.
C15_FailingPutStopsAfterBoundedAttempts ==
    /\ PrimaryPut /\ (\A i \in DOMAIN channel.log : channel.log[i] = "pyexc")
          => /\ Len(channel.log) <= 3
             /\ pc \in {"put", "raised"}
             /\ pc = "raised" => err = "PVInvalidError"
    /\ OneShotPut /\ (\A i \in DOMAIN channel.log : channel.log[i] # 1)
          => /\ Len(channel.log) <= 3
             /\ pc \in {"caput", "raised"}
             /\ pc = "raised" => err = "PVInvalidError"

\* C16: the cached get inspects data["value"] at most 3 times, returns the
\* first value that is not None, and raises PVInvalidError exactly after 3
\* inspections that all gave None; the primary put calls the provider put at
\* most 3 times, returns after the first call that does not raise pyexc, and
\* raises PVInvalidError exactly after 3 calls that all raised.
C16_AtMostThreeAttempts ==
    /\ CachedGet =>
          /\ Len(channel.log) <= 3
          /\ AllButLast(None)
          /\ pc = "done" <=> (channel.log # <<>> /\ Last # None)
          /\ pc = "done" => channel.result = Last
          /\ pc = "raised" <=> (channel.log = <<None, None, None>>
                                /\ err = "PVInvalidError")
          /\ channel.log = <<None, None, None>> => channel.attempt = 4
    /\ PrimaryPut =>
          /\ Len(channel.log) <= 3
          /\ AllButLast("pyexc")
          /\ pc = "done" <=> (channel.log # <<>> /\ Last = "ok")
          /\ pc = "raised" <=> (channel.log = <<"pyexc", "pyexc", "pyexc">>
                                /\ err = "PVInvalidError")
          /\ channel.log = <<"pyexc", "pyexc", "pyexc">> => channel.attempt = 4

\* The cached value was None at three inspections and get raised.
C16_Witness ==
    /\ CachedGet
    /\ pc = "raised" /\ err = "PVInvalidError"
    /\ channel.log = <<None, None, None>>

\* C17: a get that returned, with either strategy, returned a value that is
\* not None; a put that returned, with either strategy, made a provider call
\* that succeeded (did not raise, or gave status 1), and the record holds
\* the value put; no get or put ends otherwise than by returning or raising.
C17_NoSilentFailure ==
    /\ (op = "PV.get" /\ pc = "done") => channel.result \in PVValues
    /\ (PrimaryPut /\ pc = "done") =>
          /\ \E i \in DOMAIN channel.log : channel.log[i] = "ok"
          /\ channel.written = arg.value
    /\ (OneShotPut /\ pc = "done") =>
          /\ \E i \in DOMAIN channel.log : channel.log[i] = 1
          /\ channel.written = arg.value
    /\ op \in {"PV.get", "PV.put"} =>
          /\ pc \in {"get", "caget", "put", "caput", "done", "raised"}
          /\ pc = "raised" <=> err = "PVInvalidError"

\* A one-shot put returned after a failed and a successful caput.
C17_Witness ==
    /\ OneShotPut
    /\ pc = "done"
    /\ channel.log = <<-1, 1>>
    /\ channel.written = arg.value

\* A Cryomodule constructor has returned.
Built == op = "Cryomodule" /\ pc = "done"

\* The cavity n of the cryomodule's map, and of the map of its rack r.
CavOf(n) == topology.cavObjs[topology.cavities[n]]

RackOf(r) == topology.rackObjs[topology.racks[r]]

RackCavOf(r, n) == topology.cavObjs[RackOf(r).cavities[n]]

\* C18: in a constructed harmonic-linearizer cryomodule the SSA of cavity
\* 5, 6, 7, 8 is the instance that is the SSA of cavity 1, 2, 3, 4, through
\* the cryomodule's map and through the racks, its channels are those of the
\* leader, and the eight cavities have four SSAs; in any other constructed
\* cryomodule the eight cavities have eight SSAs.
C18_FollowerSharesLeaderSSA ==
    Built =>
        IF topology.isHarmonicLinearizer
        THEN /\ \A leader \in 1..4 :
                  /\ CavOf(leader + 4).ssa = CavOf(leader).ssa
                  /\ RackCavOf("B", leader + 4).ssa = RackCavOf("A", leader).ssa
                  /\ RackCavOf("B", leader + 4).ssa = CavOf(leader).ssa
                  /\ topology.ssaObjs[CavOf(leader + 4).ssa].cavity
                        = topology.cavities[leader]
             /\ Cardinality({CavOf(n).ssa : n \in 1..8}) = 4
        ELSE Cardinality({CavOf(n).ssa : n \in 1..8}) = 8

\* A harmonic-linearizer cryomodule has been constructed and cavity 5 has
\* the SSA that was made for cavity 1.
C18_Witness ==
    /\ Built
    /\ topology.isHarmonicLinearizer
    /\ CavOf(5).ssa = CavOf(1).ssa
    /\ topology.ssaObjs[CavOf(5).ssa].cavity = topology.cavities[1]

\* C19: in a constructed cryomodule rack A holds exactly the cavities 1-4
\* and rack B exactly 5-8, the cryomodule's map has exactly 1-8 and holds
\* for each number the cavity instance of the rack, the eight instances are
\* distinct and no other exists, and each cavity has its number and, as its
\* rack, the rack that holds it.
C19_CavitiesPartitionedByRack ==
    Built =>
        /\ DOMAIN topology.racks = {"A", "B"}
        /\ topology.racks["A"] # topology.racks["B"]
        /\ DOMAIN RackOf("A").cavities = 1..4
        /\ DOMAIN RackOf("B").cavities = 5..8
        /\ DOMAIN topology.cavities = 1..8
        /\ \A n \in 1..8 :
              LET r == IF n <= 4 THEN "A" ELSE "B"
              IN  /\ topology.cavities[n] = RackOf(r).cavities[n]
                  /\ CavOf(n).number = n
                  /\ CavOf(n).rack = topology.racks[r]
                  /\ RackOf(r).rackName = r
        /\ Cardinality({topology.cavities[n] : n \in 1..8}) = 8
        /\ Len(topology.cavObjs) = 8

\* Cryomodule "02" has been constructed with eight cavities.
C19_Witness ==
    /\ Built
    /\ topology.name = "02"
    /\ DOMAIN topology.cavities = 1..8
    /\ CavOf(8).rack = topology.racks["B"]

\* C20: the constructor of a Rack whose name is neither "A" nor "B" ends
\* only by raising, and no Cavity is made and none is in its map; with the
\* name "A" or "B" it does not raise.
C20_BadRackNameRaises ==
    op = "Rack" =>
        IF arg.rackName \notin {"A", "B"}
        THEN /\ pc \in {"rack_init", "rack_cav", "raised"}
             /\ pc = "raised" => err = "Exception"
             /\ topology.cavObjs = <<>>
             /\ \A r \in DOMAIN topology.rackObjs :
                   DOMAIN topology.rackObjs[r].cavities = {}
        ELSE pc # "raised"

\* Rack("C", ...) has raised and there is no cavity.
C20_Witness ==
    /\ op = "Rack"
    /\ arg.rackName = "C"
    /\ pc = "raised" /\ err = "Exception"
    /\ topology.cavObjs = <<>>

\* move calls itself: the done verification of a segment is followed by
\* the entry of the recursive call.
RecursiveCall ==
    /\ op = "StepperTuner.move"
    /\ pc = "t_done"
    /\ pc' \in {"t_max", "t_steps"}

\* C21: at every recursive call of move the remaining step count is
\* strictly smaller in magnitude than that of the calling move, for every
\* numSteps and every maxSteps, zero and negative ones included.
C21_RemainderDecreasesAtEveryCall ==
    [][RecursiveCall => Abs(rem') < Abs(rem)]_vars

\* The writes of the calling thread: all but the aborts of the callback.
IsMoveWrite(w) == ~IsAbort(w)

MoveWrites == SelectSeq(writes, IsMoveWrite)

\* C22: the command of a segment is written at most once; a move that
\* raised StepperError in segment k has written k step counts and k
\* commands, all commands to the same channel, and the command of segment k
\* is the last write of the move: no command again, no further segment, no
\* motion the other way, no restore of the defaults.
C22_MotorErrorAbortsMove ==
    MoveOp =>
        /\ Len(CommandWrites) <= Len(StepDesWrites)
        /\ pc = "raised" =>
              /\ err = "StepperError"
              /\ Len(CommandWrites) = Len(StepDesWrites)
              /\ Len(CommandWrites) >= 1
              /\ IsCommand(MoveWrites[Len(MoveWrites)])
              /\ \A i \in 1..Len(CommandWrites) :
                    CommandWrites[i].pv = CommandWrites[1].pv
              /\ Len(CommandWrites) <= (Abs(arg.numSteps) + arg.maxSteps - 1)
                                          \div arg.maxSteps
                                       + (IF arg.numSteps = 0 THEN 1 ELSE 0)

\* move(5, 2) raised in its second segment, the first one performed.
C22_Witness ==
    /\ MoveOp /\ pc = "raised" /\ err = "StepperError"
    /\ arg.numSteps = 5 /\ arg.maxSteps = 2
    /\ Len(CommandWrites) = 2
    /\ Len(StepDesWrites) = 2

\* C23: in a move of several segments, the command of every segment after
\* the first is written only when the motor has stopped after the previous
\* command, whatever the delivered STAT_MOV and STAT_DONE say.
C23_CommandOnlyAfterMotorFinished ==
    [][(MoveOp /\ pc = "t_cmd" /\ pc' = "t_poll" /\ Len(CommandWrites) >= 1)
          => motor.moving = 0]_vars

\* What a completed Magnet operation is to have written.
MagnetWrites ==
    CASE op = "Magnet.bdes" ->
            <<[pv |-> "BDES", val |-> arg.value],
              [pv |-> "CTRL", val |-> MAGNET_TRIM_VALUE]>>
      [] op = "Magnet.reset" ->
            <<[pv |-> "CTRL", val |-> MAGNET_RESET_VALUE]>>
      [] op = "Magnet.turnOn" ->
            <<[pv |-> "CTRL", val |-> MAGNET_ON_VALUE]>>
      [] op = "Magnet.turnOff" ->
            <<[pv |-> "CTRL", val |-> MAGNET_OFF_VALUE]>>
      [] op = "Magnet.degauss" ->
            <<[pv |-> "CTRL", val |-> MAGNET_DEGAUSS_VALUE]>>

\* C24: the bdes setter writes the value to BDES and then the trim value to
\* CTRL, and nothing else; reset, turnOn, turnOff and degauss each write
\* their own value to CTRL once, and nothing else.
C24_MagnetWrites ==
    op \in MagnetOps =>
        /\ IsPrefix(writes, MagnetWrites)
        /\ pc = "done" <=> writes = MagnetWrites
        /\ op # "Magnet.bdes" => Count("BDES") = 0

\* The bdes setter has written 2 to BDES and then trimmed.
C24_Witness ==
    /\ op = "Magnet.bdes" /\ pc = "done"
    /\ writes = <<[pv |-> "BDES", val |-> 2],
                  [pv |-> "CTRL", val |-> MAGNET_TRIM_VALUE]>>

\* The step count left for segment i of move(numSteps, maxSteps).
LeftAt(i) == arg.numSteps - Sign(arg.numSteps) * (i - 1) * arg.maxSteps

\* C26: the value written to NSTEPS for a segment carries the sign of
\* numSteps: sign(numSteps) * maxSteps for a segment that is not the last,
\* the signed remainder for the last; for numSteps < 0 every value written
\* is negative.
C26_StepCountCarriesSign ==
    MoveOp =>
        \A i \in 1..Len(StepDesWrites) :
            /\ StepDesWrites[i].val =
                  IF Abs(LeftAt(i)) <= arg.maxSteps
                  THEN LeftAt(i)
                  ELSE Sign(arg.numSteps) * arg.maxSteps
            /\ arg.numSteps < 0 => StepDesWrites[i].val < 0

\* C27: issueMoveCommand writes 1 to one direction channel, once; it leaves
\* its loop only on a STAT_MOV read that is not 1, writing nothing; it
\* then raises StepperError exactly if the STAT_DONE it reads is not 1, and
\* writes nothing in either case.
C27_IssueMoveCommand ==
    [][MoveOp =>
          /\ (pc = "t_cmd" /\ pc' # pc) =>
                /\ pc' = "t_poll"
                /\ \E c \in {"MOV_REQ_POS", "MOV_REQ_NEG"} :
                      writes' = Append(writes, [pv |-> c, val |-> 1])
          /\ (pc = "t_poll" /\ pc' # pc) =>
                /\ pc' = "t_done"
                /\ cache.moving # 1
                /\ writes' = writes
          /\ (pc = "t_done" /\ pc' # pc) =>
                /\ pc' = "raised" <=> cache.done # 1
                /\ pc' = "raised" => err' = "StepperError"
                /\ pc' # "raised" => err' = "none"
                /\ writes' = writes]_vars

\* issueMoveCommand raised in the only segment of a move: the motor had
\* stopped without reporting done.
C27_Witness ==
    /\ MoveOp /\ pc = "raised" /\ err = "StepperError"
    /\ cache = [moving |-> 0, done |-> 0]
    /\ Len(CommandWrites) = 1
    /\ Count("ABORT_REQ") = 0
    /\ writes[Len(writes)].pv \in {"MOV_REQ_POS", "MOV_REQ_NEG"}

LastCommand == CHOOSE i \in 1..Len(writes) :
                   IsCommand(writes[i]) /\ \A j \in (i + 1)..Len(writes) : ~IsCommand(writes[j])

\* The number of segments of move(numSteps, maxSteps), maxSteps >= 1.
NumSegments ==
    IF Abs(arg.numSteps) <= arg.maxSteps THEN 1
    ELSE CHOOSE k \in 1..Abs(arg.numSteps) :
            /\ k * arg.maxSteps >= Abs(arg.numSteps)
            /\ (k - 1) * arg.maxSteps < Abs(arg.numSteps)

\* The indices of the limit writes that follow the first motion command.
LimitWritesAfterFirstCommand ==
    {i \in 1..Len(writes) : IsLimit(writes[i]) /\ i > FirstCommand}

\* C28: no limit channel is written between two motion commands of a move;
\* a limit write that follows a motion command follows the command of the last
\* segment; a move that returns has written, after its last command and in
\* this order, the default maximum once and the default speed once, and
\* no other limit.
C28_DefaultsRestoredOnceAfterLastSegment ==
    (MoveOp /\ Len(CommandWrites) >= 1) =>
        /\ \A i \in LimitWritesAfterFirstCommand :
              /\ i > LastCommand
              /\ Len(CommandWrites) = NumSegments
              /\ pc \in {"t_restore_speed", "done"}
        /\ pc = "done" =>
              /\ Len(CommandWrites) = NumSegments
              /\ Cardinality(LimitWritesAfterFirstCommand) = 2
              /\ MoveWrites[Len(MoveWrites) - 1] =
                    [pv |-> "NSTEPS.DRVH", val |-> DEFAULT_STEPPER_MAX_STEPS]
              /\ MoveWrites[Len(MoveWrites)] =
                    [pv |-> "VELO", val |-> DEFAULT_STEPPER_SPEED]

\* A three-segment move that changed the limits has returned.
C28_Witness ==
    /\ MoveOp /\ pc = "done" /\ arg.changeLimits
    /\ arg.numSteps = 5 /\ arg.maxSteps = 2
    /\ Len(CommandWrites) = 3
    /\ Count("NSTEPS.DRVH") = 2 /\ Count("VELO") = 2

\* C29: a move with changeLimits first writes to the maximum-step channel
\* the magnitude of maxSteps, which is not negative, and then to the speed
\* channel the smaller of speed and MAX_STEPPER_SPEED, which is not above
\* the ceiling.
C29_LimitsWrittenAreClamped ==
    (MoveOp /\ arg.changeLimits) =>
        /\ pc # "t_max" =>
              /\ Len(writes) >= 1
              /\ writes[1].pv = "NSTEPS.DRVH"
              /\ writes[1].val \in {arg.maxSteps, 0 - arg.maxSteps}
              /\ writes[1].val >= 0
        /\ pc \notin {"t_max", "t_speed"} =>
              /\ Len(writes) >= 2
              /\ writes[2].pv = "VELO"
              /\ writes[2].val \in {arg.speed, MAX_STEPPER_SPEED}
              /\ writes[2].val <= arg.speed
              /\ writes[2].val <= MAX_STEPPER_SPEED

\* A move asked for a negative maximum and a speed above the ceiling, and has
\* written both limits.
C29_Witness ==
    /\ MoveOp /\ arg.changeLimits /\ pc = "t_steps"
    /\ arg.maxSteps = 0 - 2 /\ arg.speed = MAX_STEPPER_SPEED + 1
    /\ writes = <<[pv |-> "NSTEPS.DRVH", val |-> 2],
                  [pv |-> "VELO", val |-> MAX_STEPPER_SPEED]>>

OneShotGet == op = "PV.get" /\ arg.use_caget

\* Every primitive the get or put in progress has called is p.
CallsOnly(p) == \A i \in DOMAIN channel.calls : channel.calls[i] = p

\* C30: a get with use_caget calls only epics_caget, again after every None,
\* however many there were, and returns at the first value that is not None;
\* a put with use_caput calls only epics_caput, again after every status
\* that is not 1, and returns at the first status 1; neither raises.  A get
\* without use_caget only reads data["value"] and a put without use_caput
\* only calls super().put, also when it raises.
C30_StrategiesDoNotMix ==
    /\ OneShotGet =>
          /\ CallsOnly("epics_caget")
          /\ Len(channel.calls) = Len(channel.log)
          /\ AllButLast(None)
          /\ pc = "done" <=> (channel.log # <<>> /\ Last # None)
          /\ pc # "raised" /\ err = "none"
    /\ OneShotPut =>
          /\ CallsOnly("epics_caput")
          /\ Len(channel.calls) = Len(channel.log)
          /\ AllButLast(-1)
          /\ pc = "done" <=> (channel.log # <<>> /\ Last = 1)
          /\ pc # "raised" /\ err = "none"
    /\ CachedGet => CallsOnly("data")
    /\ PrimaryPut => CallsOnly("super.put")

\* A one-shot get went on after three None and returned the fourth value.
C30_Witness ==
    /\ OneShotGet /\ pc = "done"
    /\ channel.log = <<None, None, None, "a">>
    /\ channel.calls = <<"epics_caget", "epics_caget", "epics_caget",
                         "epics_caget">>

LimitWrites == SelectSeq(writes, IsLimit)

\* C32: a move that has raised the motor error has not restored the
\* defaults: it has written the limit channels only at its start, if it was
\* asked to change them (the magnitude of maxSteps, then the smaller of speed
\* and MAX_STEPPER_SPEED), and not at all otherwise.
C32_FailedMoveLeavesLimitsChanged ==
    (MoveOp /\ pc = "raised") =>
        /\ err = "StepperError"
        /\ Len(CommandWrites) >= 1
        /\ IF arg.changeLimits
           THEN /\ Len(LimitWrites) = 2
                /\ LimitWrites[1].pv = "NSTEPS.DRVH"
                /\ LimitWrites[1].val \in {arg.maxSteps, 0 - arg.maxSteps}
                /\ LimitWrites[1].val >= 0
                /\ LimitWrites[2].pv = "VELO"
                /\ LimitWrites[2].val \in {arg.speed, MAX_STEPPER_SPEED}
                /\ LimitWrites[2].val <= arg.speed
                /\ LimitWrites[2].val <= MAX_STEPPER_SPEED
                /\ \A i \in 1..Len(writes) :
                      IsLimit(writes[i]) => i < FirstCommand
           ELSE LimitWrites = <<>>

\* A move that lowered the maximum and asked for too high a speed failed in
\* its second segment; the channels hold the values of the move.
C32_Witness ==
    /\ MoveOp /\ pc = "raised" /\ arg.changeLimits
    /\ arg.numSteps = 5 /\ arg.maxSteps = 2
    /\ arg.speed = MAX_STEPPER_SPEED + 1
    /\ Len(CommandWrites) = 2
    /\ LimitWrites = <<[pv |-> "NSTEPS.DRVH", val |-> 2],
                       [pv |-> "VELO", val |-> MAX_STEPPER_SPEED]>>

\* C33: a move called with changeLimits=False writes no limit channel until
\* its last segment is done, and when it has returned it has written the
\* default maximum and then the default speed, and no other limit.
C33_DefaultsWrittenWithoutChangeLimits ==
    (MoveOp /\ ~arg.changeLimits) =>
        /\ pc \notin {"t_restore_speed", "done"} => LimitWrites = <<>>
        /\ pc = "t_restore_speed" =>
              LimitWrites =
                 <<[pv |-> "NSTEPS.DRVH", val |-> DEFAULT_STEPPER_MAX_STEPS]>>
        /\ pc = "done" =>
              /\ LimitWrites =
                    <<[pv |-> "NSTEPS.DRVH", val |-> DEFAULT_STEPPER_MAX_STEPS],
                      [pv |-> "VELO", val |-> DEFAULT_STEPPER_SPEED]>>
              /\ \A i \in 1..Len(writes) :
                    IsLimit(writes[i]) => i > LastCommand

\* A three-segment move that was not to change the limits has returned.
C33_Witness ==
    /\ MoveOp /\ pc = "done" /\ ~arg.changeLimits
    /\ arg.numSteps = 0 - 5 /\ arg.maxSteps = 2
    /\ Len(CommandWrites) = 3
    /\ Len(LimitWrites) = 2

\* C34: move(0, maxSteps >= 0) is one segment: it writes 0 to the step
\* count channel and then 1 to the negative command channel, whether the
\* cryomodule is a harmonic lineariser or not, and never the positive one.
C34_ZeroStepsCommandsNegative ==
    (MoveOp /\ arg.numSteps = 0 /\ arg.maxSteps >= 0) =>
        /\ pc \in {"t_max", "t_speed", "t_steps"} =>
              StepDesWrites = <<>> /\ CommandWrites = <<>>
        /\ pc \notin {"t_max", "t_speed", "t_steps"} =>
              StepDesWrites = <<[pv |-> "NSTEPS", val |-> 0]>>
        /\ pc = "t_cmd" => CommandWrites = <<>>
        /\ pc \notin {"t_max", "t_speed", "t_steps", "t_cmd"} =>
              CommandWrites = <<[pv |-> "MOV_REQ_NEG", val |-> 1]>>

\* A zero-step move with a zero maximum on a harmonic lineariser has
\* returned.
C34_Witness ==
    /\ MoveOp /\ pc = "done"
    /\ arg.numSteps = 0 /\ arg.maxSteps = 0 /\ arg.isHarmonicLinearizer
    /\ CommandWrites = <<[pv |-> "MOV_REQ_NEG", val |-> 1]>>

\* C35: pushGoButton returns normally only if the pulse status it read last
\* is the settled value 2, and raises PulseError only if the status that
\* ended its polling loop was above 2.
C35_ResultConsistentWithOneObservation ==
    (op \in PulseOps /\ PastGoPut) =>
        /\ pc = "done" => pulse.checkRead = 2
        /\ pc = "raised" => pulse.loopRead > 2

\* The cryomodule make_lcls_cryomodules has under the given name.
CryomoduleObject(name) == lcls.cryoObjs[lcls.cryomoduleObjects[name]]

NamesL2B == {"04", "05", "06", "07", "08", "09", "10", "11", "12", "13", "14",
             "15"}
NamesL3B == {"16", "17", "18", "19", "20", "21", "22", "23", "24", "25", "26",
             "27", "28", "29", "30", "31", "32", "33", "34", "35"}
NamesHL == {"H1", "H2"}
AllCryomoduleNames == {"01", "02", "03"} \cup NamesL2B \cup NamesL3B \cup NamesHL

LinacOf(name) ==
    IF name = "01" THEN "L0B"
    ELSE IF name \in {"02", "03"} \cup NamesHL THEN "L1B"
    ELSE IF name \in NamesL2B THEN "L2B"
    ELSE "L3B"

\* C31: the mapping make_lcls_cryomodules returns has exactly the names 01
\* to 35, H1 and H2; each name maps to a Cryomodule of its own, made once,
\* that has this name, whose linac is the Linac of its table (L1B for H1
\* and H2) and holds it under the same name, that is a harmonic lineariser
\* exactly if it is H1 or H2, and that has no magnet if it is one and a
\* QUAD, an XCOR and a YCOR otherwise.
C31_EveryCryomoduleOnceInItsLinac ==
    (op = "make_lcls_cryomodules" /\ pc = "done") =>
        /\ DOMAIN lcls.cryomoduleObjects = AllCryomoduleNames
        /\ Len(lcls.cryoObjs) = Cardinality(AllCryomoduleNames)
        /\ Len(lcls.linacObjs) = 4
        /\ \A n \in AllCryomoduleNames, m \in AllCryomoduleNames :
              lcls.cryomoduleObjects[n] = lcls.cryomoduleObjects[m] => n = m
        /\ \A n \in AllCryomoduleNames :
              LET cm == CryomoduleObject(n)
              IN  /\ cm.name = n
                  /\ lcls.linacObjs[cm.linac].name = LinacOf(n)
                  /\ n \in DOMAIN lcls.linacObjs[cm.linac].cryomodules
                  /\ lcls.linacObjs[cm.linac].cryomodules[n] =
                        lcls.cryomoduleObjects[n]
                  /\ cm.isHarmonicLinearizer <=> n \in NamesHL
                  /\ cm.magnets = IF n \in NamesHL THEN {}
                                  ELSE {"QUAD", "XCOR", "YCOR"}

\* make_lcls_cryomodules has returned; H1 is a harmonic lineariser of L1B
\* without magnets and 35 a cryomodule of L3B with three.
C31_Witness ==
    /\ op = "make_lcls_cryomodules" /\ pc = "done"
    /\ Cardinality(DOMAIN lcls.cryomoduleObjects) = 37
    /\ CryomoduleObject("H1").isHarmonicLinearizer
    /\ CryomoduleObject("H1").magnets = {}
    /\ lcls.linacObjs[CryomoduleObject("H1").linac].name = "L1B"
    /\ Cardinality(CryomoduleObject("35").magnets) = 3

=============================================================================
